---- MODULE Spec2Model ----
(***************************************************************************)
(* Escalation / assignment engine and accept / resolve gate of the civic   *)
(* issue reporting backend.                                                *)
(*   backend/src/controllers/employeeController.js  acceptIssue,           *)
(*                                                  resolveIssue           *)
(*   backend/src/services/escalationService.js      EscalationService,     *)
(*                                                  EscalationJob          *)
(* Every handler is an async function: it is split into one action per     *)
(* round trip to the store (each await of a query, an update or a save),   *)
(* and the steps of different handlers interleave freely.                  *)
(* Time is counted in ticks of five minutes.  Unset ids and unset          *)
(* timestamps are 0, an unset role is "none".                              *)
(***************************************************************************)
EXTENDS Integers, Sequences, FiniteSets, TLC

(* ------------------------------ bounds --------------------------------- *)
MaxTime == 3
MaxCredits == 2
MaxHistory == 1

(* --------------------------- program constants ------------------------- *)
NoUser == 0
NoTime == 0
PointBonus == 10
GraceTicks == 1
SupervisorAgeTicks == 1
CommissionerAgeTicks == 2
CreatedAt == 1
WindowTicks == 1
allowedDistanceMeters == 100

employeeRoles == {"field-staff", "supervisor", "commissioner", "employee"}
acceptableStatuses == {"reported", "assigned"}
sweepStatuses == {"reported", "in-progress", "escalated"}
Priorities == {"low", "medium", "high", "urgent"}
Category == "Roads"

(* ------------------------------ directory ------------------------------ *)
StaffRec(r, a, ds, d, lc, ll) ==
    [role |-> r, isActive |-> a, departments |-> ds, department |-> d,
     loginCount |-> lc, lastLogin |-> ll]

DirFull ==
    << StaffRec("field-staff",  TRUE, {"Roads"}, "none", 0, 1),
       StaffRec("supervisor",   TRUE, {"Roads"}, "none", 1, 1),
       StaffRec("supervisor",   TRUE, {"All"},   "none", 0, 1),
       StaffRec("commissioner", TRUE, {},        "All",  0, 1),
       StaffRec("admin",        TRUE, {},        "none", 0, 1),
       StaffRec("employee",     TRUE, {"Water"}, "none", 0, 1) >>

DirNoSupervisor ==
    [id \in DOMAIN DirFull |->
        IF DirFull[id].role = "supervisor"
        THEN [DirFull[id] EXCEPT !.isActive = FALSE]
        ELSE DirFull[id]]

Directories == {DirFull, DirNoSupervisor}
Staff == DOMAIN DirFull

(* sort({ loginCount: 1, lastLogin: -1 }); ties keep the store's order *)
SortsBefore(dir, a, b) ==
    \/ dir[a].loginCount < dir[b].loginCount
    \/ /\ dir[a].loginCount = dir[b].loginCount
       /\ dir[a].lastLogin > dir[b].lastLogin
    \/ /\ dir[a].loginCount = dir[b].loginCount
       /\ dir[a].lastLogin = dir[b].lastLogin
       /\ a < b

RECURSIVE SortUsers(_, _)
SortUsers(dir, S) ==
    IF S = {} THEN << >>
    ELSE LET h == CHOOSE a \in S : \A b \in S \ {a} : SortsBefore(dir, a, b)
         IN  << h >> \o SortUsers(dir, S \ {h})

InDepartments(u, cats) ==
    \/ u.departments \cap cats # {}
    \/ u.department \in cats

TierCategory(dir, role, category) ==
    {id \in DOMAIN dir : /\ dir[id].role = role
                         /\ dir[id].isActive
                         /\ InDepartments(dir[id], {category, "All"})}

TierAll(dir, role) ==
    {id \in DOMAIN dir : /\ dir[id].role = role
                         /\ dir[id].isActive
                         /\ InDepartments(dir[id], {"All"})}

TierAny(dir, role) ==
    {id \in DOMAIN dir : dir[id].role = role /\ dir[id].isActive}

(* a list lookup that stops after the department tiers *)
findAllUsersForRoleInDepartment(dir, role, category) ==
    IF TierCategory(dir, role, category) # {}
    THEN SortUsers(dir, TierCategory(dir, role, category))
    ELSE SortUsers(dir, TierAll(dir, role))

(* lines 320-352 *)
findAllUsersForRole(dir, role, category) ==
    IF TierCategory(dir, role, category) # {}
    THEN SortUsers(dir, TierCategory(dir, role, category))
    ELSE IF TierAll(dir, role) # {}
    THEN SortUsers(dir, TierAll(dir, role))
    ELSE SortUsers(dir, TierAny(dir, role))

(* a single lookup that stops after the department tiers *)
findUserForRoleInDepartment(dir, role, category) ==
    LET first(S) == IF S = {} THEN NoUser ELSE SortUsers(dir, S)[1]
    IN  IF first(TierCategory(dir, role, category)) # NoUser
        THEN first(TierCategory(dir, role, category))
        ELSE first(TierAll(dir, role))

(* lines 283-315 *)
findUserForRole(dir, role, category) ==
    LET first(S) == IF S = {} THEN NoUser ELSE SortUsers(dir, S)[1]
    IN  IF first(TierCategory(dir, role, category)) # NoUser
        THEN first(TierCategory(dir, role, category))
        ELSE IF first(TierAll(dir, role)) # NoUser
        THEN first(TierAll(dir, role))
        ELSE first(TierAny(dir, role))

(* ------------------------------- records ------------------------------- *)
NewIssue(p) ==
    [status |-> "reported", priority |-> p, category |-> Category,
     createdAt |-> CreatedAt,
     assignedRole |-> "none", assignedTo |-> NoUser, assignedBy |-> NoUser,
     assignedAt |-> NoTime,
     acceptedBy |-> NoUser,
     escalationDeadline |-> NoTime, escalationHistory |-> << >>,
     resolvedAt |-> NoTime, resolvedBy |-> NoUser, pointsAwarded |-> FALSE,
     latitude |-> 100]

NoDoc == NewIssue("none")

(* req.body without latitude and longitude *)
NoLocation == [given |-> FALSE, latitude |-> 0]

IdleReq ==
    [op |-> "none", pc |-> "idle", user |-> NoUser, issue |-> 0,
     doc |-> NoDoc, orig |-> NoDoc, aux |-> 0, arg |-> "none",
     to |-> {}, result |-> "none", loc |-> NoLocation, found |-> << >>]

DoneReq(o, u, i, res) ==
    [IdleReq EXCEPT !.op = o, !.pc = "done", !.user = u, !.issue = i,
                    !.result = res]

IdleSweep ==
    [pc |-> "idle", now0 |-> NoTime, list |-> << >>, idx |-> 0,
     to |-> {}, pending |-> [issueId |-> 0, fromRole |-> "none", toRole |-> "none"],
     results |-> << >>, thrown |-> FALSE]

SweepIds == {"cron", "runNow", "direct"}
GuardedSweeps == {"cron", "runNow"}

VARIABLES now, users, issues, points, reqs, sweeps, isRunning

vars == << now, users, issues, points, reqs, sweeps, isRunning >>

Range(f) == {f[x] : x \in DOMAIN f}

InFlight ==
    Cardinality({r \in DOMAIN reqs : reqs[r].pc # "idle"})
    + Cardinality({s \in SweepIds : sweeps[s].pc # "idle"})

(* a request is served by the first free slot *)
FreeSlot(r) ==
    /\ reqs[r].pc = "idle"
    /\ r = "r2" => reqs["r1"].pc # "idle"

(* ------------------------- the document store -------------------------- *)
(* a save that writes the whole array of the copy over the stored one *)
SaveWholeArrays(db, orig, doc) ==
    [f \in DOMAIN db |-> IF doc[f] # orig[f] THEN doc[f] ELSE db[f]]

(* document.save(): the fields changed since the read are $set, pushed     *)
(* array elements are appended to the stored array                         *)
Save(db, orig, doc) ==
    [f \in DOMAIN db |->
        IF f = "escalationHistory"
        THEN db[f] \o SubSeq(doc[f], Len(orig[f]) + 1, Len(doc[f]))
        ELSE IF doc[f] # orig[f] THEN doc[f] ELSE db[f]]

(* --------------------------- Issue model ------------------------------- *)
EscalationWindow(priority, role) == WindowTicks

calculateEscalationDeadline(priority, role, t) ==
    t + EscalationWindow(priority, role)

escalate(d, toRole, by, reason, t) ==
    [d EXCEPT !.escalationHistory =
                  Append(@, [fromRole |-> IF d.assignedRole = "none"
                                          THEN "unassigned" ELSE d.assignedRole,
                             toRole |-> toRole,
                             escalatedBy |-> by,
                             reason |-> reason]),
              !.assignedRole = toRole,
              !.status = "escalated",
              !.escalationDeadline =
                  calculateEscalationDeadline(d.priority, toRole, t)]

assign(d, to, by, role, t) ==
    [d EXCEPT !.assignedRole = role,
              !.assignedTo = to,
              !.assignedBy = by,
              !.assignedAt = t,
              !.status = IF d.acceptedBy # NoUser THEN "in-progress" ELSE "assigned",
              !.escalationDeadline =
                  calculateEscalationDeadline(d.priority, role, t)]

(* ------------------------- EscalationService --------------------------- *)
NoOutcome(d) == [saved |-> FALSE, doc |-> d, to |-> {}, toRole |-> "none"]

(* lines 259-278 *)
assignToFieldStaff(dir, d, t) ==
    LET fieldStaff == findUserForRole(dir, "field-staff", d.category)
    IN  IF fieldStaff = NoUser
        THEN NoOutcome(d)
        ELSE [saved |-> TRUE,
              doc |-> assign(d, fieldStaff, fieldStaff, "field-staff", t),
              to |-> {fieldStaff},
              toRole |-> "field-staff"]

(* a hierarchy table whose last row stays at the top role *)
nextRoleOfTopStays(currentRole) ==
    IF currentRole = "field-staff" THEN "supervisor"
    ELSE "commissioner"

(* lines 197-212 *)
nextRoleOf(currentRole) ==
    IF currentRole = "field-staff" THEN "supervisor"
    ELSE IF currentRole = "supervisor" THEN "commissioner"
    ELSE "none"

(* an escalation that marks the issue escalated although nobody holds the   *)
(* next role                                                               *)
escalateIssueWithoutStaff(dir, d, t) ==
    IF d.assignedRole = "none"
    THEN assignToFieldStaff(dir, d, t)
    ELSE LET nextRole == nextRoleOf(d.assignedRole)
             nextRoleUsers == findAllUsersForRole(dir, nextRole, d.category)
         IN  IF nextRole = "none"
             THEN NoOutcome(d)
             ELSE [saved |-> TRUE,
                   doc |-> [d EXCEPT !.assignedRole = nextRole,
                                     !.status = "escalated"],
                   to |-> Range(nextRoleUsers),
                   toRole |-> nextRole]

(* lines 191-254, up to and including issue.save() *)
escalateIssue(dir, d, t) ==
    IF d.assignedRole = "none"
    THEN assignToFieldStaff(dir, d, t)
    ELSE LET nextRole == nextRoleOf(d.assignedRole)
             nextRoleUsers == findAllUsersForRole(dir, nextRole, d.category)
         IN  IF nextRole = "none" \/ nextRoleUsers = << >>
             THEN NoOutcome(d)
             ELSE LET assignedUser == nextRoleUsers[1]
                      d1 == IF d.escalationDeadline = NoTime /\ d.priority # "none"
                            THEN [d EXCEPT !.escalationDeadline =
                                     calculateEscalationDeadline(d.priority, d.assignedRole, t)]
                            ELSE d
                      d2 == escalate(d1, nextRole, assignedUser,
                                     "Auto-escalated: Time limit exceeded", t)
                  IN  [saved |-> TRUE,
                       doc |-> [d2 EXCEPT !.assignedTo = assignedUser,
                                          !.assignedBy = assignedUser],
                       to |-> Range(nextRoleUsers),
                       toRole |-> nextRole]

(* a table that gives low priority issues twice the time at each level *)
TargetRoleSlowLow(priority, age) ==
    IF priority \in {"high", "urgent", "medium"}
    THEN IF age >= CommissionerAgeTicks THEN "commissioner"
         ELSE IF age >= SupervisorAgeTicks THEN "supervisor"
         ELSE "field-staff"
    ELSE IF age >= 2 * CommissionerAgeTicks THEN "commissioner"
         ELSE IF age >= 2 * SupervisorAgeTicks THEN "supervisor"
         ELSE "field-staff"

(* lines 79-104: the three priority branches carry the same thresholds *)
TargetRole(priority, age) ==
    IF priority \in {"high", "urgent"}
    THEN IF age >= CommissionerAgeTicks THEN "commissioner"
         ELSE IF age >= SupervisorAgeTicks THEN "supervisor"
         ELSE "field-staff"
    ELSE IF priority = "medium"
    THEN IF age >= CommissionerAgeTicks THEN "commissioner"
         ELSE IF age >= SupervisorAgeTicks THEN "supervisor"
         ELSE "field-staff"
    ELSE IF age >= CommissionerAgeTicks THEN "commissioner"
         ELSE IF age >= SupervisorAgeTicks THEN "supervisor"
         ELSE "field-staff"

(* a fast-track whose lookup never finds anybody *)
fastTrackFindsNobody(dir, d, targetRole, t) == NoOutcome(d)

(* lines 121-134: direct escalation of a never-assigned issue *)
fastTrack(dir, d, targetRole, t) ==
    LET targetUsers == findAllUsersForRole(dir, targetRole, d.category)
    IN  IF targetUsers = << >>
        THEN NoOutcome(d)
        ELSE [saved |-> TRUE,
              doc |-> [d EXCEPT !.assignedRole = targetRole,
                                !.assignedTo = targetUsers[1],
                                !.assignedBy = targetUsers[1],
                                !.assignedAt = t,
                                !.status = "escalated",
                                !.escalationDeadline =
                                    IF d.priority # "none"
                                    THEN calculateEscalationDeadline(d.priority, targetRole, t)
                                    ELSE d.escalationDeadline],
              to |-> Range(targetUsers),
              toRole |-> targetRole]

(* a query whose last branch takes a never-assigned issue of any age *)
OverdueNoGrace(rec, t) ==
    /\ rec.status \in sweepStatuses
    /\ \/ /\ rec.assignedRole \in {"field-staff", "supervisor"}
          /\ rec.escalationDeadline # NoTime
          /\ rec.escalationDeadline <= t
       \/ /\ rec.escalationDeadline = NoTime
          /\ rec.assignedRole \in {"field-staff", "supervisor"}
          /\ rec.assignedAt # NoTime
       \/ /\ rec.escalationDeadline = NoTime
          /\ rec.assignedRole \in {"field-staff", "supervisor"}
          /\ rec.createdAt <= t - GraceTicks
       \/ /\ rec.assignedRole = "none"
          /\ rec.status = "reported"

(* lines 22-49: the query of the sweep *)
Overdue(rec, t) ==
    /\ rec.status \in sweepStatuses
    /\ \/ /\ rec.assignedRole \in {"field-staff", "supervisor"}
          /\ rec.escalationDeadline # NoTime
          /\ rec.escalationDeadline <= t
       \/ /\ rec.escalationDeadline = NoTime
          /\ rec.assignedRole \in {"field-staff", "supervisor"}
          /\ rec.assignedAt # NoTime
       \/ /\ rec.escalationDeadline = NoTime
          /\ rec.assignedRole \in {"field-staff", "supervisor"}
          /\ rec.createdAt <= t - GraceTicks
       \/ /\ rec.assignedRole = "none"
          /\ rec.status = "reported"
          /\ rec.createdAt <= t - GraceTicks

RECURSIVE SeqOfSet(_)
SeqOfSet(S) ==
    IF S = {} THEN << >>
    ELSE LET m == CHOOSE x \in S : \A y \in S : x <= y
         IN  << m >> \o SeqOfSet(S \ {m})

overdueIssues(db, t) ==
    LET ids == SeqOfSet({i \in DOMAIN db : Overdue(db[i], t)})
    IN  [k \in DOMAIN ids |-> [id |-> ids[k], doc |-> db[ids[k]]]]

(* --------------------------- acceptIssue ------------------------------- *)
(* lines 190-214: role check, findById, assigned-to-someone-else check *)
AcceptRead(r, u, i) ==
    /\ FreeSlot(r)
    /\ IF users[u].role \notin employeeRoles
       THEN reqs' = [reqs EXCEPT ![r] = DoneReq("accept", u, i, "403")]
       ELSE IF i \notin DOMAIN issues
       THEN reqs' = [reqs EXCEPT ![r] = DoneReq("accept", u, i, "404")]
       ELSE IF issues[i].assignedTo # NoUser /\ issues[i].assignedTo # u
       THEN reqs' = [reqs EXCEPT ![r] = DoneReq("accept", u, i, "403")]
       ELSE reqs' = [reqs EXCEPT ![r] =
                [IdleReq EXCEPT !.op = "accept", !.pc = "update", !.user = u,
                                !.issue = i,
                                !.doc = [NoDoc EXCEPT
                                            !.assignedBy = issues[i].assignedBy,
                                            !.assignedAt = issues[i].assignedAt]]]
    /\ UNCHANGED << now, users, issues, points, sweeps, isRunning >>

(* a filter that forgot the acceptedBy and assignedTo conditions *)
AcceptFilterStatusOnly(rec, u) ==
    rec.status \in acceptableStatuses \cup {"in-progress"}

(* a filter without the condition on assignedTo *)
AcceptFilterAnyAssignee(rec, u) ==
    /\ rec.status \in acceptableStatuses
    /\ rec.acceptedBy = NoUser

(* lines 219-227: the filter of the conditional update *)
AcceptFilter(rec, u) ==
    /\ rec.status \in acceptableStatuses
    /\ rec.acceptedBy = NoUser
    /\ (rec.assignedTo = NoUser \/ rec.assignedTo = u)

(* a $set that always stamps the caller and the time *)
AcceptSetStampsCaller(rec, u, doc, t) ==
    [rec EXCEPT !.status = "in-progress",
                !.acceptedBy = u,
                !.assignedTo = u,
                !.assignedBy = u,
                !.assignedAt = t]

(* lines 228-238: the $set of the conditional update *)
AcceptSet(rec, u, doc, t) ==
    [rec EXCEPT !.status = "in-progress",
                !.acceptedBy = u,
                !.assignedTo = u,
                !.assignedBy = IF doc.assignedBy # NoUser THEN doc.assignedBy ELSE u,
                !.assignedAt = IF doc.assignedAt # NoTime THEN doc.assignedAt ELSE t]

(* lines 218-239: Issue.updateOne, one atomic step of the store *)
AcceptUpdate(r) ==
    /\ reqs[r].op = "accept"
    /\ reqs[r].pc = "update"
    /\ LET i == reqs[r].issue
           u == reqs[r].user
       IN  IF AcceptFilter(issues[i], u)
           THEN /\ issues' = [issues EXCEPT ![i] = AcceptSet(@, u, reqs[r].doc, now)]
                /\ reqs' = [reqs EXCEPT ![r].pc = "reread", ![r].aux = 1,
                                        ![r].doc = NoDoc]
           ELSE /\ issues' = issues
                /\ reqs' = [reqs EXCEPT ![r].pc = "reread", ![r].aux = 0,
                                        ![r].doc = NoDoc]
    /\ UNCHANGED << now, users, points, sweeps, isRunning >>

(* lines 241-279: the diagnostic of a lost update, from a fresh read *)
AcceptDiagnosis(cur, u) ==
    IF cur.acceptedBy # NoUser THEN "400"
    ELSE IF cur.status \notin acceptableStatuses THEN "400"
    ELSE IF cur.assignedTo # NoUser /\ cur.assignedTo # u THEN "403"
    ELSE "400"

(* a lost update that is tried again without its filter *)
AcceptRereadForces(r) ==
    /\ reqs[r].op = "accept"
    /\ reqs[r].pc = "reread"
    /\ LET i == reqs[r].issue
           u == reqs[r].user
       IN  /\ reqs' = [reqs EXCEPT ![r] = DoneReq("accept", u, i, "400")]
           /\ issues' = IF reqs[r].aux = 1 THEN issues
                         ELSE [issues EXCEPT ![i].acceptedBy = u, ![i].assignedTo = u]
    /\ UNCHANGED << now, users, points, sweeps, isRunning >>

(* lines 241-290: matchedCount test, re-read, response *)
AcceptReread(r) ==
    /\ reqs[r].op = "accept"
    /\ reqs[r].pc = "reread"
    /\ LET i == reqs[r].issue
           u == reqs[r].user
       IN  reqs' = [reqs EXCEPT ![r] =
                DoneReq("accept", u, i,
                        IF reqs[r].aux = 1 THEN "200"
                        ELSE AcceptDiagnosis(issues[i], u))]
    /\ UNCHANGED << now, users, issues, points, sweeps, isRunning >>

(* the response has been sent: the request is over *)
ReqReturn(r) ==
    /\ reqs[r].pc = "done"
    /\ reqs' = [reqs EXCEPT ![r] = IdleReq]
    /\ UNCHANGED << now, users, issues, points, sweeps, isRunning >>

(* lines 283-352: findUserForRole and findAllUsersForRole called with the  *)
(* same role and category on the same directory                            *)
LookupStaff(r, role, category) ==
    /\ FreeSlot(r)
    /\ reqs' = [reqs EXCEPT ![r] =
            [IdleReq EXCEPT !.op = "find", !.pc = "done", !.arg = role,
                            !.doc = [NoDoc EXCEPT !.category = category],
                            !.user = findUserForRole(users, role, category),
                            !.found = findAllUsersForRole(users, role, category)]]
    /\ UNCHANGED << now, users, issues, points, sweeps, isRunning >>

(* five minutes pass; a round trip to the store takes far less, so the    *)
(* clock moves between operations                                          *)
Tick ==
    /\ now < MaxTime
    /\ InFlight = 0
    /\ now' = now + 1
    /\ UNCHANGED << users, issues, points, reqs, sweeps, isRunning >>

(* --------------------------- resolveIssue ------------------------------ *)
(* an admin override that also skips the accepted-first rule *)
ResolveAuthAdminBypass(rec, u, role) ==
    IF role = "admin" THEN "ok"
    ELSE IF rec.acceptedBy = NoUser THEN "400"
    ELSE IF rec.acceptedBy # u THEN "403" ELSE "ok"

(* an authorization that lets any caller resolve an accepted issue *)
ResolveAuthAnyCaller(rec, u, role) ==
    IF rec.acceptedBy # NoUser THEN "ok" ELSE "400"

(* lines 311-330: who may resolve *)
ResolveAuth(rec, u, role) ==
    IF rec.acceptedBy # NoUser
    THEN IF role # "admin" /\ rec.acceptedBy # u THEN "403" ELSE "ok"
    ELSE "400"

(* lines 354-362: the great-circle distance in metres.  Positions lie on  *)
(* one meridian (the longitudes are equal and not 0), a latitude is the    *)
(* distance in metres from the equator.                                    *)
DistanceOf(a, b) == IF a >= b THEN a - b ELSE b - a

(* lines 347-370: the distance test of a supplied location; the guards     *)
(* `latitude && longitude` and `originalLat && originalLng` are truthiness *)
(* tests, which a coordinate of 0 fails                                    *)
GeofenceRejects(d, geo) ==
    /\ geo.given
    /\ geo.latitude # 0
    /\ d.latitude # 0
    /\ DistanceOf(d.latitude, geo.latitude) > allowedDistanceMeters

(* lines 382-384: is the reporter to be credited *)
NeedsCredit(d) == d.status # "resolved" /\ ~d.pointsAwarded

(* lines 406-421: the status test and the fields of the resolution *)
ResolveFinish(q, t) ==
    IF q.doc.status # "in-progress"
    THEN DoneReq("resolve", q.user, q.issue, "400")
    ELSE [q EXCEPT !.pc = "save",
                   !.doc = [q.doc EXCEPT !.resolvedAt = t,
                                         !.status = "resolved",
                                         !.resolvedBy = q.user]]

(* lines 303-384: findById, authorization, geofence, up to the next await *)
ResolveRead(r, u, i, geo) ==
    /\ FreeSlot(r)
    /\ points < MaxCredits * PointBonus
    /\ LET d == issues[i]
           q == [IdleReq EXCEPT !.op = "resolve", !.user = u, !.issue = i,
                                !.doc = d, !.orig = d]
           out == IF ResolveAuth(d, u, users[u].role) # "ok"
                  THEN DoneReq("resolve", u, i, ResolveAuth(d, u, users[u].role))
                  ELSE IF GeofenceRejects(d, geo)
                  THEN DoneReq("resolve", u, i, "400")
                  ELSE IF NeedsCredit(d)
                  THEN [q EXCEPT !.pc = "reporter"]
                  ELSE ResolveFinish(q, now)
       IN  reqs' = [reqs EXCEPT ![r] = [out EXCEPT !.loc = geo]]
    /\ UNCHANGED << now, users, issues, points, sweeps, isRunning >>

(* line 387: User.findById(issue.reportedBy) *)
ResolveFindReporter(r) ==
    /\ reqs[r].op = "resolve"
    /\ reqs[r].pc = "reporter"
    /\ reqs' = [reqs EXCEPT ![r].pc = "credit", ![r].aux = points]
    /\ UNCHANGED << now, users, issues, points, sweeps, isRunning >>

(* lines 389-392 and 406-421: reporter.save(), then the status test *)
ResolveCredit(r) ==
    /\ reqs[r].op = "resolve"
    /\ reqs[r].pc = "credit"
    /\ points' = reqs[r].aux + PointBonus
    /\ reqs' = [reqs EXCEPT ![r] =
            ResolveFinish([reqs[r] EXCEPT !.doc.pointsAwarded = TRUE, !.aux = 0], now)]
    /\ UNCHANGED << now, users, issues, sweeps, isRunning >>

(* lines 395-402: the award throws *)
ResolveCreditFail(r) ==
    /\ reqs[r].op = "resolve"
    /\ reqs[r].pc \in {"reporter", "credit"}
    /\ reqs' = [reqs EXCEPT ![r] =
            DoneReq("resolve", reqs[r].user, reqs[r].issue, "500")]
    /\ UNCHANGED << now, users, issues, points, sweeps, isRunning >>

(* line 423: issue.save() *)
ResolveSave(r) ==
    /\ reqs[r].op = "resolve"
    /\ reqs[r].pc = "save"
    /\ issues' = [issues EXCEPT ![reqs[r].issue] =
            Save(@, reqs[r].orig, reqs[r].doc)]
    /\ reqs' = [reqs EXCEPT ![r].pc = "notify", ![r].doc = NoDoc,
                            ![r].orig = NoDoc]
    /\ UNCHANGED << now, users, points, sweeps, isRunning >>

(* lines 425-495: classifier removal (caught), notifyIssueResolved *)
ResolveNotifyOk(r) ==
    /\ reqs[r].op = "resolve"
    /\ reqs[r].pc = "notify"
    /\ reqs' = [reqs EXCEPT ![r] =
            DoneReq("resolve", reqs[r].user, reqs[r].issue, "200")]
    /\ UNCHANGED << now, users, issues, points, sweeps, isRunning >>

(* lines 493-499: notifyIssueResolved throws into the outer catch *)
ResolveNotifyFail(r) ==
    /\ reqs[r].op = "resolve"
    /\ reqs[r].pc = "notify"
    /\ reqs' = [reqs EXCEPT ![r] =
            DoneReq("resolve", reqs[r].user, reqs[r].issue, "500")]
    /\ UNCHANGED << now, users, issues, points, sweeps, isRunning >>

(* ------------- escalateIssue and manualEscalate, called directly -------- *)
(* the caller loads the issue it hands to escalateIssue *)
EscalateRead(r, i) ==
    /\ FreeSlot(r)
    /\ Len(issues[i].escalationHistory) < MaxHistory
    /\ reqs' = [reqs EXCEPT ![r] =
            [IdleReq EXCEPT !.op = "escalate", !.pc = "step", !.issue = i,
                            !.doc = issues[i], !.orig = issues[i]]]
    /\ UNCHANGED << now, users, issues, points, sweeps, isRunning >>

(* lines 191-238 *)
EscalateStep(r) ==
    /\ reqs[r].op = "escalate"
    /\ reqs[r].pc = "step"
    /\ LET i == reqs[r].issue
           out == escalateIssue(users, reqs[r].doc, now)
       IN  IF out.saved
           THEN /\ issues' = [issues EXCEPT ![i] = Save(@, reqs[r].orig, out.doc)]
                /\ reqs' = [reqs EXCEPT ![r].pc = "notify", ![r].to = out.to,
                                        ![r].arg = out.toRole,
                                        ![r].doc = NoDoc, ![r].orig = NoDoc]
           ELSE /\ issues' = issues
                /\ reqs' = [reqs EXCEPT ![r] =
                        [DoneReq("escalate", NoUser, i, "null")
                            EXCEPT !.arg = reqs[r].doc.assignedRole]]
    /\ UNCHANGED << now, users, points, sweeps, isRunning >>

(* lines 376-377: manualEscalate reads the issue *)
ManualRead(r, u, i, toRole) ==
    /\ FreeSlot(r)
    /\ Len(issues[i].escalationHistory) < MaxHistory
    /\ reqs' = [reqs EXCEPT ![r] =
            [IdleReq EXCEPT !.op = "manual", !.pc = "step", !.user = u,
                            !.issue = i, !.arg = toRole,
                            !.doc = issues[i], !.orig = issues[i]]]
    /\ UNCHANGED << now, users, issues, points, sweeps, isRunning >>

(* lines 383-392 *)
manualEscalate(dir, d, toRole, escalatedBy, t) ==
    LET assignedUser == findUserForRole(dir, toRole, d.category)
    IN  IF assignedUser = NoUser
        THEN NoOutcome(d)
        ELSE [saved |-> TRUE,
              doc |-> [escalate(d, toRole, escalatedBy, "manual", t)
                          EXCEPT !.assignedTo = assignedUser,
                                 !.assignedBy = escalatedBy],
              to |-> {assignedUser},
              toRole |-> toRole]

ManualStep(r) ==
    /\ reqs[r].op = "manual"
    /\ reqs[r].pc = "step"
    /\ LET i == reqs[r].issue
           out == manualEscalate(users, reqs[r].doc, reqs[r].arg, reqs[r].user, now)
       IN  IF out.saved
           THEN /\ issues' = [issues EXCEPT ![i] = Save(@, reqs[r].orig, out.doc)]
                /\ reqs' = [reqs EXCEPT ![r].pc = "notify", ![r].to = out.to,
                                        ![r].doc = NoDoc, ![r].orig = NoDoc]
           ELSE /\ issues' = issues
                /\ reqs' = [reqs EXCEPT ![r] =
                        DoneReq("manual", reqs[r].user, i, "throw")]
    /\ UNCHANGED << now, users, points, sweeps, isRunning >>

(* lines 240-254, 270-277, 394-399: the notifications all go out *)
ReqNotifyOk(r) ==
    /\ reqs[r].op \in {"escalate", "manual"}
    /\ reqs[r].pc = "notify"
    /\ reqs' = [reqs EXCEPT ![r] =
            [DoneReq(reqs[r].op, reqs[r].user, reqs[r].issue, "ok")
                EXCEPT !.to = reqs[r].to]]
    /\ UNCHANGED << now, users, issues, points, sweeps, isRunning >>

(* a notification rejects and the call throws *)
ReqNotifyFail(r) ==
    /\ reqs[r].op \in {"escalate", "manual"}
    /\ reqs[r].pc = "notify"
    /\ reqs' = [reqs EXCEPT ![r] =
            DoneReq(reqs[r].op, reqs[r].user, reqs[r].issue, "throw")]
    /\ UNCHANGED << now, users, issues, points, sweeps, isRunning >>

(* ----------------------- checkAndEscalateIssues ------------------------ *)
(* lines 17-49: now is taken once, the query returns the overdue issues *)
BeginSweep(db, t) ==
    [IdleSweep EXCEPT !.pc = IF overdueIssues(db, t) = << >> THEN "finish" ELSE "process",
                      !.now0 = t,
                      !.list = overdueIssues(db, t),
                      !.idx = 1]

(* lines 71, 151, 164, 173: on to the next issue of the loop *)
Advance(sw) ==
    [sw EXCEPT !.idx = @ + 1,
               !.pc = IF sw.idx + 1 > Len(sw.list) THEN "finish" ELSE "process",
               !.to = {},
               !.pending = IdleSweep.pending]

(* lines 76-154: the transition the loop body computes for one issue *)
SweepOutcome(dir, d, now0, t) ==
    IF d.assignedRole = "none"
    THEN LET targetRole == TargetRole(IF d.priority = "none" THEN "medium" ELSE d.priority,
                                      now0 - d.createdAt)
         IN  IF targetRole = "field-staff"
             THEN assignToFieldStaff(dir, d, t)
             ELSE fastTrack(dir, d, targetRole, t)
    ELSE escalateIssue(dir, d, t)

(* lines 430-437: the cron callback, isRunning is free *)
CronTickRun ==
    /\ ~isRunning
    /\ sweeps["cron"].pc = "idle"
    /\ isRunning' = TRUE
    /\ sweeps' = [sweeps EXCEPT !["cron"] = BeginSweep(issues, now)]
    /\ UNCHANGED << now, users, issues, points, reqs >>

(* lines 431-434: the cron callback while a check is in progress *)
CronTickSkip ==
    /\ isRunning
    /\ UNCHANGED vars

(* lines 483-490: runNow, isRunning is free *)
RunNowRun ==
    /\ ~isRunning
    /\ sweeps["runNow"].pc = "idle"
    /\ isRunning' = TRUE
    /\ sweeps' = [sweeps EXCEPT !["runNow"] = BeginSweep(issues, now)]
    /\ UNCHANGED << now, users, issues, points, reqs >>

(* lines 484-486: runNow while a check is in progress *)
RunNowRefuse ==
    /\ isRunning
    /\ UNCHANGED vars

(* lines 15-49 and 403: checkAndEscalateIssues called on the exported service *)
DirectRun ==
    /\ sweeps["direct"].pc = "idle"
    /\ sweeps' = [sweeps EXCEPT !["direct"] = BeginSweep(issues, now)]
    /\ UNCHANGED << now, users, issues, points, reqs, isRunning >>

(* lines 71-154: one issue of the loop, up to and including its save *)
SweepProcess(s) ==
    /\ sweeps[s].pc = "process"
    /\ LET sw == sweeps[s]
           e == sw.list[sw.idx]
           out == SweepOutcome(users, e.doc, sw.now0, now)
       IN  IF out.saved
           THEN /\ issues' = [issues EXCEPT ![e.id] = Save(@, e.doc, out.doc)]
                /\ sweeps' = [sweeps EXCEPT ![s].pc = "notify",
                                            ![s].to = out.to,
                                            ![s].pending =
                                               [issueId |-> e.id,
                                                fromRole |-> IF e.doc.assignedRole = "none"
                                                             THEN "unassigned"
                                                             ELSE out.doc.assignedRole,
                                                toRole |-> out.toRole]]
           ELSE /\ issues' = issues
                /\ sweeps' = [sweeps EXCEPT ![s] = Advance(@)]
    /\ UNCHANGED << now, users, points, reqs, isRunning >>

(* lines 107, 122, 155 and 165-173: the staff lookup or the save rejects,  *)
(* nothing is written, the catch records a failure                         *)
SweepProcessFail(s) ==
    /\ sweeps[s].pc = "process"
    /\ LET sw == sweeps[s]
       IN  sweeps' = [sweeps EXCEPT ![s] =
                  Advance([sw EXCEPT !.results =
                      Append(@, [issueId |-> sw.list[sw.idx].id,
                                 fromRole |-> "none",
                                 toRole |-> "none",
                                 notified |-> {},
                                 success |-> FALSE])])]
    /\ UNCHANGED << now, users, issues, points, reqs, isRunning >>

(* lines 112-119, 135-148, 155-163: notified, the success is recorded *)
SweepNotifyOk(s) ==
    /\ sweeps[s].pc = "notify"
    /\ LET sw == sweeps[s]
       IN  sweeps' = [sweeps EXCEPT ![s] =
                  Advance([sw EXCEPT !.results =
                      Append(@, [issueId |-> sw.pending.issueId,
                                 fromRole |-> sw.pending.fromRole,
                                 toRole |-> sw.pending.toRole,
                                 notified |-> sw.to,
                                 success |-> TRUE])])]
    /\ UNCHANGED << now, users, issues, points, reqs, isRunning >>

(* a rejected notification that ends the loop *)
SweepNotifyFailAborts(s) ==
    /\ sweeps[s].pc = "notify"
    /\ LET sw == sweeps[s]
       IN  sweeps' = [sweeps EXCEPT ![s] =
                  [sw EXCEPT !.pc = "finish",
                             !.results =
                                Append(@, [issueId |-> sw.pending.issueId,
                                           fromRole |-> "none",
                                           toRole |-> "none",
                                           notified |-> {},
                                           success |-> FALSE])]]
    /\ UNCHANGED << now, users, issues, points, reqs, isRunning >>

(* lines 165-173: a notification rejects, the catch records a failure *)
SweepNotifyFail(s) ==
    /\ sweeps[s].pc = "notify"
    /\ LET sw == sweeps[s]
       IN  sweeps' = [sweeps EXCEPT ![s] =
                  Advance([sw EXCEPT !.results =
                      Append(@, [issueId |-> sw.pending.issueId,
                                 fromRole |-> "none",
                                 toRole |-> "none",
                                 notified |-> {},
                                 success |-> FALSE])])]
    /\ UNCHANGED << now, users, issues, points, reqs, isRunning >>

(* lines 176-181: the aggregate the sweep returns *)
SweepResult(sw) ==
    [checked |-> Len(sw.list),
     escalated |-> Cardinality({k \in DOMAIN sw.results : sw.results[k].success}),
     failed |-> Cardinality({k \in DOMAIN sw.results : ~sw.results[k].success}),
     results |-> sw.results]

(* lines 176-181, 458-460, 492-494: the result is returned, the flag freed *)
SweepFinish(s) ==
    /\ sweeps[s].pc = "finish"
    /\ sweeps' = [sweeps EXCEPT ![s] = IdleSweep]
    /\ isRunning' = IF s \in GuardedSweeps THEN FALSE ELSE isRunning
    /\ UNCHANGED << now, users, issues, points, reqs >>

(* lines 22-49 and 182-185: the query of the sweep is under way and will  *)
(* reject                                                                  *)
FailingSweep(t) == [IdleSweep EXCEPT !.pc = "throw", !.now0 = t]

(* lines 430-437 and 22: the cron callback takes the flag, the query of    *)
(* its sweep rejects                                                       *)
CronTickQueryFails ==
    /\ ~isRunning
    /\ sweeps["cron"].pc = "idle"
    /\ isRunning' = TRUE
    /\ sweeps' = [sweeps EXCEPT !["cron"] = FailingSweep(now)]
    /\ UNCHANGED << now, users, issues, points, reqs >>

(* lines 483-490 and 22: runNow takes the flag, the query of its sweep     *)
(* rejects                                                                 *)
RunNowQueryFails ==
    /\ ~isRunning
    /\ sweeps["runNow"].pc = "idle"
    /\ isRunning' = TRUE
    /\ sweeps' = [sweeps EXCEPT !["runNow"] = FailingSweep(now)]
    /\ UNCHANGED << now, users, issues, points, reqs >>

(* lines 22 and 403: the query of a sweep called on the exported service   *)
(* rejects                                                                 *)
DirectQueryFails ==
    /\ sweeps["direct"].pc = "idle"
    /\ sweeps' = [sweeps EXCEPT !["direct"] = FailingSweep(now)]
    /\ UNCHANGED << now, users, issues, points, reqs, isRunning >>

(* a sweep that throws past a caller without a finally block *)
SweepThrowKeepsFlag(s) ==
    /\ sweeps[s].pc = "throw"
    /\ sweeps' = [sweeps EXCEPT ![s] = [IdleSweep EXCEPT !.thrown = TRUE]]
    /\ UNCHANGED << now, users, issues, points, reqs, isRunning >>

(* lines 182-185, 455-460, 492-494: the sweep rethrows, the caller's       *)
(* finally block frees the flag                                            *)
SweepThrow(s) ==
    /\ sweeps[s].pc = "throw"
    /\ sweeps' = [sweeps EXCEPT ![s] = [IdleSweep EXCEPT !.thrown = TRUE]]
    /\ isRunning' = IF s \in GuardedSweeps THEN FALSE ELSE isRunning
    /\ UNCHANGED << now, users, issues, points, reqs >>

(* ---------------------------- specifications --------------------------- *)
MainIssues == {1}
InitPriorities == {"high"}
AcceptCallers == {1, 3, 5}
ManualCallers == {u \in Staff : DirFull[u].role = "admin"}
Roles == {"field-staff", "supervisor", "commissioner"}
Locations == {NoLocation} \cup {[given |-> TRUE, latitude |-> l] : l \in {100, 250}}

(* The gate, the admin calls and the scheduled job on one issue: one        *)
(* request at a time races the sweeps the job starts.                      *)
Init ==
    /\ now = CreatedAt
    /\ users \in Directories
    /\ issues \in [MainIssues -> {NewIssue(p) : p \in InitPriorities}]
    /\ points = 0
    /\ reqs = [r \in {"r1"} |-> IdleReq]
    /\ sweeps = [s \in SweepIds |-> IdleSweep]
    /\ isRunning = FALSE

Next ==
    \/ Tick
    \/ \E r \in DOMAIN reqs, u \in AcceptCallers, i \in DOMAIN issues : AcceptRead(r, u, i)
    \/ \E r \in DOMAIN reqs : AcceptUpdate(r)
    \/ \E r \in DOMAIN reqs : AcceptReread(r)
    \/ \E r \in DOMAIN reqs, u \in Staff, i \in DOMAIN issues, geo \in Locations :
          ResolveRead(r, u, i, geo)
    \/ \E r \in DOMAIN reqs : ResolveFindReporter(r)
    \/ \E r \in DOMAIN reqs : ResolveCredit(r)
    \/ \E r \in DOMAIN reqs : ResolveCreditFail(r)
    \/ \E r \in DOMAIN reqs : ResolveSave(r)
    \/ \E r \in DOMAIN reqs : ResolveNotifyOk(r)
    \/ \E r \in DOMAIN reqs : ResolveNotifyFail(r)
    \/ \E r \in DOMAIN reqs, i \in DOMAIN issues : EscalateRead(r, i)
    \/ \E r \in DOMAIN reqs : EscalateStep(r)
    \/ \E r \in DOMAIN reqs, u \in ManualCallers, i \in DOMAIN issues, role \in Roles :
          ManualRead(r, u, i, role)
    \/ \E r \in DOMAIN reqs : ManualStep(r)
    \/ \E r \in DOMAIN reqs : ReqNotifyOk(r)
    \/ \E r \in DOMAIN reqs : ReqNotifyFail(r)
    \/ \E r \in DOMAIN reqs : ReqReturn(r)
    \/ CronTickRun
    \/ CronTickSkip
    \/ RunNowRun
    \/ RunNowRefuse
    \/ \E s \in SweepIds : SweepProcess(s)
    \/ \E s \in SweepIds : SweepProcessFail(s)
    \/ \E s \in SweepIds : SweepNotifyOk(s)
    \/ \E s \in SweepIds : SweepNotifyFail(s)
    \/ \E s \in SweepIds : SweepFinish(s)

Spec == Init /\ [][Next]_vars

(* Two accept calls on one department-wide, unaccepted issue.  Such a      *)
(* record (a role but no individual assignedTo) is the case the filter of  *)
(* the update names at line 224.                                           *)
DepartmentWide(p) ==
    [NewIssue(p) EXCEPT !.status = "assigned",
                        !.assignedRole = "field-staff",
                        !.assignedBy = 5,
                        !.assignedAt = CreatedAt,
                        !.escalationDeadline = CreatedAt + WindowTicks]

InitAccept ==
    /\ now \in CreatedAt..MaxTime
    /\ users \in Directories
    /\ issues \in [MainIssues -> {NewIssue(p) : p \in InitPriorities}
                                 \cup {DepartmentWide(p) : p \in InitPriorities}]
    /\ points = 0
    /\ reqs = [r \in {"r1", "r2"} |-> IdleReq]
    /\ sweeps = [s \in SweepIds |-> IdleSweep]
    /\ isRunning = FALSE

NextAccept ==
    \/ \E r \in DOMAIN reqs, u \in AcceptCallers, i \in DOMAIN issues : AcceptRead(r, u, i)
    \/ \E r \in DOMAIN reqs : AcceptUpdate(r)
    \/ \E r \in DOMAIN reqs : AcceptReread(r)

SpecAccept == InitAccept /\ [][NextAccept]_vars

(* Every way a sweep is started: the cron callback, runNow, and a call of   *)
(* checkAndEscalateIssues on the exported service.                         *)
NextJob ==
    \/ Tick
    \/ CronTickRun
    \/ CronTickSkip
    \/ RunNowRun
    \/ RunNowRefuse
    \/ DirectRun
    \/ \E s \in SweepIds : SweepProcess(s)
    \/ \E s \in SweepIds : SweepProcessFail(s)
    \/ \E s \in SweepIds : SweepNotifyOk(s)
    \/ \E s \in SweepIds : SweepNotifyFail(s)
    \/ \E s \in SweepIds : SweepFinish(s)

SpecJob == Init /\ [][NextJob]_vars

(* The escalation ladder by itself: escalateIssue and manualEscalate calls  *)
(* racing the sweeps of the job.                                           *)
NextEscalation ==
    \/ Tick
    \/ \E r \in DOMAIN reqs, i \in DOMAIN issues : EscalateRead(r, i)
    \/ \E r \in DOMAIN reqs : EscalateStep(r)
    \/ \E r \in DOMAIN reqs, u \in ManualCallers, i \in DOMAIN issues, role \in Roles :
          ManualRead(r, u, i, role)
    \/ \E r \in DOMAIN reqs : ManualStep(r)
    \/ \E r \in DOMAIN reqs : ReqNotifyOk(r)
    \/ \E r \in DOMAIN reqs : ReqNotifyFail(r)
    \/ \E r \in DOMAIN reqs : ReqReturn(r)
    \/ CronTickRun
    \/ CronTickSkip
    \/ RunNowRun
    \/ RunNowRefuse
    \/ \E s \in SweepIds : SweepProcess(s)
    \/ \E s \in SweepIds : SweepProcessFail(s)
    \/ \E s \in SweepIds : SweepNotifyOk(s)
    \/ \E s \in SweepIds : SweepNotifyFail(s)
    \/ \E s \in SweepIds : SweepFinish(s)

SpecEscalation == Init /\ [][NextEscalation]_vars
(* The gate by itself: accept and resolve calls racing the sweeps of the    *)
(* job.                                                                    *)
NextResolve ==
    \/ Tick
    \/ \E r \in DOMAIN reqs, u \in AcceptCallers, i \in DOMAIN issues : AcceptRead(r, u, i)
    \/ \E r \in DOMAIN reqs : AcceptUpdate(r)
    \/ \E r \in DOMAIN reqs : AcceptReread(r)
    \/ \E r \in DOMAIN reqs, u \in Staff, i \in DOMAIN issues, geo \in Locations :
          ResolveRead(r, u, i, geo)
    \/ \E r \in DOMAIN reqs : ResolveFindReporter(r)
    \/ \E r \in DOMAIN reqs : ResolveCredit(r)
    \/ \E r \in DOMAIN reqs : ResolveCreditFail(r)
    \/ \E r \in DOMAIN reqs : ResolveSave(r)
    \/ \E r \in DOMAIN reqs : ResolveNotifyOk(r)
    \/ \E r \in DOMAIN reqs : ResolveNotifyFail(r)
    \/ \E r \in DOMAIN reqs : ReqReturn(r)
    \/ CronTickRun
    \/ CronTickSkip
    \/ RunNowRun
    \/ RunNowRefuse
    \/ \E s \in SweepIds : SweepProcess(s)
    \/ \E s \in SweepIds : SweepProcessFail(s)
    \/ \E s \in SweepIds : SweepNotifyOk(s)
    \/ \E s \in SweepIds : SweepNotifyFail(s)
    \/ \E s \in SweepIds : SweepFinish(s)

SpecResolve == Init /\ [][NextResolve]_vars

(* The geofence of resolveIssue: report locations on and off the equator,  *)
(* supplied locations at 0, 100 (the boundary) and 150 metres from the     *)
(* report, and on the equator.                                             *)
ReportLatitudes == {0, 100}
SuppliedLocations ==
    {NoLocation} \cup {[given |-> TRUE, latitude |-> l] : l \in {0, 100, 200, 250}}

InitGeofence ==
    /\ now = CreatedAt
    /\ users \in Directories
    /\ issues \in [MainIssues ->
                     {[NewIssue(p) EXCEPT !.latitude = l] :
                         p \in InitPriorities, l \in ReportLatitudes}]
    /\ points = 0
    /\ reqs = [r \in {"r1"} |-> IdleReq]
    /\ sweeps = [s \in SweepIds |-> IdleSweep]
    /\ isRunning = FALSE

NextGeofence ==
    \/ \E r \in DOMAIN reqs, u \in AcceptCallers, i \in DOMAIN issues : AcceptRead(r, u, i)
    \/ \E r \in DOMAIN reqs : AcceptUpdate(r)
    \/ \E r \in DOMAIN reqs : AcceptReread(r)
    \/ \E r \in DOMAIN reqs, u \in Staff, i \in DOMAIN issues, geo \in SuppliedLocations :
          ResolveRead(r, u, i, geo)
    \/ \E r \in DOMAIN reqs : ResolveFindReporter(r)
    \/ \E r \in DOMAIN reqs : ResolveCredit(r)
    \/ \E r \in DOMAIN reqs : ResolveCreditFail(r)
    \/ \E r \in DOMAIN reqs : ResolveSave(r)
    \/ \E r \in DOMAIN reqs : ResolveNotifyOk(r)
    \/ \E r \in DOMAIN reqs : ResolveNotifyFail(r)
    \/ \E r \in DOMAIN reqs : ReqReturn(r)

SpecGeofence == InitGeofence /\ [][NextGeofence]_vars

(* Accept calls on an issue that is open to anybody or carries an          *)
(* individual assignedTo, two calls at a time, racing the job's sweep.     *)
PreAssigned(p, status, to, by) ==
    [NewIssue(p) EXCEPT !.status = status,
                        !.assignedTo = to,
                        !.assignedBy = by,
                        !.assignedAt = IF by = NoUser THEN NoTime ELSE CreatedAt]

InitAcceptRace ==
    /\ now = CreatedAt
    /\ users \in Directories
    /\ issues \in [MainIssues ->
                     {PreAssigned(p, st, to, by) :
                         p \in InitPriorities, st \in acceptableStatuses,
                         to \in {NoUser, 1, 3}, by \in {NoUser, 5}}]
    /\ points = 0
    /\ reqs = [r \in {"r1", "r2"} |-> IdleReq]
    /\ sweeps = [s \in SweepIds |-> IdleSweep]
    /\ isRunning = FALSE

NextAcceptRace ==
    \/ Tick
    \/ \E r \in DOMAIN reqs, u \in AcceptCallers, i \in DOMAIN issues : AcceptRead(r, u, i)
    \/ \E r \in DOMAIN reqs : AcceptUpdate(r)
    \/ \E r \in DOMAIN reqs : AcceptReread(r)
    \/ \E r \in DOMAIN reqs : ReqReturn(r)
    \/ CronTickRun
    \/ CronTickSkip
    \/ \E s \in SweepIds : SweepProcess(s)
    \/ \E s \in SweepIds : SweepProcessFail(s)
    \/ \E s \in SweepIds : SweepNotifyOk(s)
    \/ \E s \in SweepIds : SweepNotifyFail(s)
    \/ \E s \in SweepIds : SweepFinish(s)

SpecAcceptRace == InitAcceptRace /\ [][NextAcceptRace]_vars

(* Accept calls racing direct escalateIssue calls, which hand an           *)
(* unassigned issue to a field-staff member between the read and the       *)
(* update of an accept.                                                    *)
NextAcceptAssigned ==
    \/ \E r \in DOMAIN reqs, u \in AcceptCallers, i \in DOMAIN issues : AcceptRead(r, u, i)
    \/ \E r \in DOMAIN reqs : AcceptUpdate(r)
    \/ \E r \in DOMAIN reqs : AcceptReread(r)
    \/ \E r \in DOMAIN reqs, i \in DOMAIN issues : EscalateRead(r, i)
    \/ \E r \in DOMAIN reqs : EscalateStep(r)
    \/ \E r \in DOMAIN reqs : ReqNotifyOk(r)
    \/ \E r \in DOMAIN reqs : ReqNotifyFail(r)
    \/ \E r \in DOMAIN reqs : ReqReturn(r)

SpecAcceptAssigned == InitAcceptRace /\ [][NextAcceptAssigned]_vars

(* The job's sweeps over two issues. *)
SweepIssues == {1, 2}

InitSweep ==
    /\ now = CreatedAt
    /\ users \in Directories
    /\ issues \in [SweepIssues -> {NewIssue(p) : p \in InitPriorities}]
    /\ points = 0
    /\ reqs = [r \in {"r1"} |-> IdleReq]
    /\ sweeps = [s \in SweepIds |-> IdleSweep]
    /\ isRunning = FALSE

NextSweep ==
    \/ Tick
    \/ CronTickRun
    \/ CronTickSkip
    \/ RunNowRun
    \/ RunNowRefuse
    \/ \E s \in SweepIds : SweepProcess(s)
    \/ \E s \in SweepIds : SweepProcessFail(s)
    \/ \E s \in SweepIds : SweepNotifyOk(s)
    \/ \E s \in SweepIds : SweepNotifyFail(s)
    \/ \E s \in SweepIds : SweepFinish(s)

SpecSweep == InitSweep /\ [][NextSweep]_vars

(* The sweeps and direct escalateIssue calls over two issues, each either   *)
(* never assigned or accepted by a field-staff member whose deadline runs  *)
(* out, with and without supervisors in the directory.                     *)
AcceptedAtFieldStaff(p) ==
    [NewIssue(p) EXCEPT !.status = "in-progress",
                        !.assignedRole = "field-staff",
                        !.assignedTo = 1,
                        !.assignedBy = 1,
                        !.assignedAt = CreatedAt,
                        !.acceptedBy = 1,
                        !.escalationDeadline = CreatedAt + WindowTicks]

InitNoStaff ==
    /\ now = CreatedAt
    /\ users \in Directories
    /\ issues \in [SweepIssues -> {NewIssue(p) : p \in InitPriorities}
                                  \cup {AcceptedAtFieldStaff(p) : p \in InitPriorities}]
    /\ points = 0
    /\ reqs = [r \in {"r1"} |-> IdleReq]
    /\ sweeps = [s \in SweepIds |-> IdleSweep]
    /\ isRunning = FALSE

NextNoStaff ==
    \/ Tick
    \/ \E r \in DOMAIN reqs, i \in DOMAIN issues : EscalateRead(r, i)
    \/ \E r \in DOMAIN reqs : EscalateStep(r)
    \/ \E r \in DOMAIN reqs : ReqNotifyOk(r)
    \/ \E r \in DOMAIN reqs : ReqNotifyFail(r)
    \/ \E r \in DOMAIN reqs : ReqReturn(r)
    \/ CronTickRun
    \/ CronTickSkip
    \/ \E s \in SweepIds : SweepProcess(s)
    \/ \E s \in SweepIds : SweepProcessFail(s)
    \/ \E s \in SweepIds : SweepNotifyOk(s)
    \/ \E s \in SweepIds : SweepNotifyFail(s)
    \/ \E s \in SweepIds : SweepFinish(s)

SpecNoStaff == InitNoStaff /\ [][NextNoStaff]_vars

(* The job's sweeps under its schedule: time passes, the cron expression   *)
(* keeps firing, a sweep that has started runs to its end, and the store   *)
(* does not reject the loop's calls for ever.                              *)
FairSchedule ==
    /\ SF_vars(Tick)
    /\ SF_vars(CronTickRun)
    /\ \A s \in SweepIds :
          /\ SF_vars(SweepProcess(s))
          /\ WF_vars(SweepNotifyOk(s) \/ SweepNotifyFail(s))
          /\ WF_vars(SweepFinish(s))

SpecSweepLive == InitSweep /\ [][NextSweep]_vars /\ FairSchedule

(* The staff lookups by themselves, over every directory of three staff   *)
(* members drawn from the records below: two roles, active or not, the     *)
(* category, "All" or another department in either department field,      *)
(* equal and different login counts and login times.                       *)
LookupRoles == {"supervisor", "field-staff"}
LookupCategories == {"Roads", "Water"}
LookupIds == {1, 2, 3}

StaffChoices ==
    {StaffRec(role, a, ds, "none", lc, ll) :
        role \in LookupRoles, a \in BOOLEAN,
        ds \in {{"Roads"}, {"All"}, {"Parks"}},
        lc \in {0, 1}, ll \in {1, 2}}
    \cup {StaffRec(role, a, {}, "All", lc, ll) :
        role \in LookupRoles, a \in BOOLEAN, lc \in {0, 1}, ll \in {1, 2}}

InitLookup ==
    /\ now = CreatedAt
    /\ users \in [LookupIds -> StaffChoices]
    /\ issues \in [MainIssues -> {NewIssue(p) : p \in InitPriorities}]
    /\ points = 0
    /\ reqs = [r \in {"r1"} |-> IdleReq]
    /\ sweeps = [s \in SweepIds |-> IdleSweep]
    /\ isRunning = FALSE

NextLookup ==
    \/ \E r \in DOMAIN reqs, role \in LookupRoles, category \in LookupCategories :
          LookupStaff(r, role, category)
    \/ \E r \in DOMAIN reqs : ReqReturn(r)

SpecLookup == InitLookup /\ [][NextLookup]_vars

(* Accept calls, two at a time, by employees and by an admin, on an issue  *)
(* of the store and on an id the store does not hold.                      *)
MissingIssue == 9
AcceptTargets == MainIssues \cup {MissingIssue}

NextAcceptFail ==
    \/ \E r \in DOMAIN reqs, u \in AcceptCallers, i \in AcceptTargets : AcceptRead(r, u, i)
    \/ \E r \in DOMAIN reqs : AcceptUpdate(r)
    \/ \E r \in DOMAIN reqs : AcceptReread(r)
    \/ \E r \in DOMAIN reqs : ReqReturn(r)

SpecAcceptFail == InitAcceptRace /\ [][NextAcceptFail]_vars

(* Two resolveIssue calls at a time, by the accepter and by an admin, on   *)
(* an accepted issue in progress.                                          *)
ResolveCallers == {1, 5}

InitResolveRace ==
    /\ now = CreatedAt
    /\ users \in Directories
    /\ issues \in [MainIssues -> {AcceptedAtFieldStaff(p) : p \in InitPriorities}]
    /\ points = 0
    /\ reqs = [r \in {"r1", "r2"} |-> IdleReq]
    /\ sweeps = [s \in SweepIds |-> IdleSweep]
    /\ isRunning = FALSE

NextResolveRace ==
    \/ \E r \in DOMAIN reqs, u \in ResolveCallers, i \in DOMAIN issues :
          ResolveRead(r, u, i, NoLocation)
    \/ \E r \in DOMAIN reqs : ResolveFindReporter(r)
    \/ \E r \in DOMAIN reqs : ResolveCredit(r)
    \/ \E r \in DOMAIN reqs : ResolveCreditFail(r)
    \/ \E r \in DOMAIN reqs : ResolveSave(r)
    \/ \E r \in DOMAIN reqs : ResolveNotifyOk(r)
    \/ \E r \in DOMAIN reqs : ResolveNotifyFail(r)
    \/ \E r \in DOMAIN reqs : ReqReturn(r)

SpecResolveRace == InitResolveRace /\ [][NextResolveRace]_vars

(* The job's sweeps over two never-assigned issues of every priority, and  *)
(* of none.                                                                *)
InitTarget ==
    /\ now = CreatedAt
    /\ users \in Directories
    /\ issues \in [SweepIssues -> {NewIssue(p) : p \in Priorities \cup {"none"}}]
    /\ points = 0
    /\ reqs = [r \in {"r1"} |-> IdleReq]
    /\ sweeps = [s \in SweepIds |-> IdleSweep]
    /\ isRunning = FALSE

SpecTarget == InitTarget /\ [][NextSweep]_vars

(* The job with sweeps that return and sweeps whose query rejects. *)
NextGuard ==
    \/ Tick
    \/ CronTickRun
    \/ CronTickQueryFails
    \/ CronTickSkip
    \/ RunNowRun
    \/ RunNowQueryFails
    \/ RunNowRefuse
    \/ DirectRun
    \/ DirectQueryFails
    \/ \E s \in SweepIds : SweepProcess(s)
    \/ \E s \in SweepIds : SweepProcessFail(s)
    \/ \E s \in SweepIds : SweepNotifyOk(s)
    \/ \E s \in SweepIds : SweepNotifyFail(s)
    \/ \E s \in SweepIds : SweepFinish(s)
    \/ \E s \in SweepIds : SweepThrow(s)

SpecGuard == Init /\ [][NextGuard]_vars

(* ------------------------------- claims -------------------------------- *)
RoleOf(u) == users[u].role

(* C1: two accept calls by distinct employees on one unaccepted,           *)
(* department-wide issue, interleaved in any order: exactly one gets the   *)
(* success response, the issue is in-progress and accepted by that caller, *)
(* the other gets an error response, and acceptedBy, once set, is never    *)
(* written again.                                                          *)
C1_BothAnswered ==
    /\ reqs["r1"].pc = "done" /\ reqs["r2"].pc = "done"
    /\ reqs["r1"].issue = reqs["r2"].issue
    /\ reqs["r1"].user # reqs["r2"].user
    /\ RoleOf(reqs["r1"].user) \in employeeRoles
    /\ RoleOf(reqs["r2"].user) \in employeeRoles

C1_ExactlyOneWins ==
    C1_BothAnswered =>
        \E w \in DOMAIN reqs : \E l \in DOMAIN reqs \ {w} :
            /\ reqs[w].result = "200"
            /\ reqs[l].result \in {"400", "403"}
            /\ issues[reqs[w].issue].status = "in-progress"
            /\ issues[reqs[w].issue].acceptedBy = reqs[w].user
            /\ issues[reqs[w].issue].assignedTo = reqs[w].user

C1_AcceptedByKept ==
    \A i \in DOMAIN issues :
        issues[i].acceptedBy # NoUser => issues'[i].acceptedBy = issues[i].acceptedBy

C1_ExclusiveAcceptance == []C1_ExactlyOneWins /\ [][C1_AcceptedByKept]_vars

(* the loser passed the first read and lost at the conditional update *)
C1_Witness ==
    /\ C1_BothAnswered
    /\ reqs["r1"].result = "400"
    /\ reqs["r2"].result = "200"

(* C2: an issue whose acceptedBy is set has assignedTo = acceptedBy and    *)
(* status in-progress or resolved, in every reachable state.               *)
C2_AcceptedConsistent ==
    \A i \in DOMAIN issues :
        issues[i].acceptedBy # NoUser =>
            /\ issues[i].assignedTo = issues[i].acceptedBy
            /\ issues[i].status \in {"in-progress", "resolved"}

(* C3: over any sequence of resolveIssue calls the reporter is credited    *)
(* the bonus at most once, and whenever no resolve is under way the stored *)
(* pointsAwarded flag is true exactly when the bonus has been credited.    *)
C3_NoResolveUnderWay ==
    \A r \in DOMAIN reqs : reqs[r].op = "resolve" => reqs[r].pc = "done"

C3_PointsOnce ==
    /\ points <= PointBonus
    /\ C3_NoResolveUnderWay =>
          \A i \in DOMAIN issues : issues[i].pointsAwarded <=> (points = PointBonus)

(* C4: every unresolved issue at field-staff whose deadline has passed,    *)
(* with an eligible supervisor in the directory, is taken up by the sweep  *)
(* that starts, whatever status its assignment left it in.                 *)
SweepStarts(s) == sweeps[s].pc = "idle" /\ sweeps'[s].pc # "idle"

SelectedBy(sw) == {sw.list[k].id : k \in DOMAIN sw.list}

C4_OverdueFieldStaff(i) ==
    /\ issues[i].assignedRole = "field-staff"
    /\ issues[i].escalationDeadline # NoTime
    /\ issues[i].escalationDeadline <= now
    /\ issues[i].status # "resolved"
    /\ findAllUsersForRole(users, "supervisor", issues[i].category) # << >>

C4_StepTakesUpOverdue ==
    \A s \in SweepIds :
        SweepStarts(s) =>
            \A i \in DOMAIN issues :
                C4_OverdueFieldStaff(i) => i \in SelectedBy(sweeps'[s])

C4_SweepTakesUpOverdue == [][C4_StepTakesUpOverdue]_vars

(* C5: escalateIssue on an issue at commissioner returns no result, writes *)
(* nothing to the issue and notifies nobody, and no sweep ever selects an  *)
(* issue at commissioner.                                                  *)
C5_NeverSelected ==
    \A s \in SweepIds : \A k \in DOMAIN sweeps[s].list :
        sweeps[s].list[k].doc.assignedRole # "commissioner"

C5_StepIsNoOp ==
    \A r \in DOMAIN reqs :
        ( /\ reqs[r].op = "escalate"
          /\ reqs[r].pc = "step"
          /\ reqs[r].doc.assignedRole = "commissioner"
          /\ reqs'[r] # reqs[r] )
        => /\ issues' = issues
           /\ reqs'[r].pc = "done"
           /\ reqs'[r].result = "null"
           /\ reqs'[r].to = {}

C5_TopRoleNoOp == []C5_NeverSelected /\ [][C5_StepIsNoOp]_vars

C5_Witness ==
    \E r \in DOMAIN reqs :
        /\ reqs[r].op = "escalate"
        /\ reqs[r].pc = "done"
        /\ reqs[r].result = "null"
        /\ reqs[r].arg = "commissioner"
        /\ issues[reqs[r].issue].assignedRole = "commissioner"

(* C6: a resolveIssue call on an issue whose acceptedBy is unset answers   *)
(* with an error at once, for every caller and every status, and no issue  *)
(* becomes resolved while its acceptedBy is unset.                         *)
C6_StepRejects ==
    \A r \in DOMAIN reqs :
        ( /\ reqs[r].pc = "idle"
          /\ reqs'[r].op = "resolve"
          /\ issues[reqs'[r].issue].acceptedBy = NoUser )
        => /\ reqs'[r].pc = "done"
           /\ reqs'[r].result \in {"400", "403"}
           /\ issues' = issues
           /\ points' = points

C6_StepResolvesAccepted ==
    \A i \in DOMAIN issues :
        (issues[i].status # "resolved" /\ issues'[i].status = "resolved")
        => issues[i].acceptedBy # NoUser

C6_UnacceptedNeverResolved ==
    [][C6_StepRejects /\ C6_StepResolvesAccepted]_vars

C6_Witness ==
    \E r \in DOMAIN reqs :
        /\ reqs[r].op = "resolve"
        /\ reqs[r].pc = "done"
        /\ reqs[r].result = "400"
        /\ RoleOf(reqs[r].user) = "admin"
        /\ issues[reqs[r].issue].acceptedBy = NoUser
        /\ issues[reqs[r].issue].status = "escalated"

(* C7: assignedRole only moves forward in the order                        *)
(* unset < field-staff < supervisor < commissioner.                        *)
RoleRank(role) ==
    IF role = "none" THEN 0
    ELSE IF role = "field-staff" THEN 1
    ELSE IF role = "supervisor" THEN 2
    ELSE 3

C7_StepForward ==
    \A i \in DOMAIN issues :
        RoleRank(issues'[i].assignedRole) >= RoleRank(issues[i].assignedRole)

C7_RoleOnlyForward == [][C7_StepForward]_vars

(* C8: once an issue is resolved no step changes its status, assignedRole, *)
(* assignedTo or acceptedBy, and no sweep selects it.                      *)
C8_StepKeepsResolved ==
    \A i \in DOMAIN issues :
        issues[i].status = "resolved" =>
            /\ issues'[i].status = "resolved"
            /\ issues'[i].assignedRole = issues[i].assignedRole
            /\ issues'[i].assignedTo = issues[i].assignedTo
            /\ issues'[i].acceptedBy = issues[i].acceptedBy
            /\ \A s \in SweepIds : SweepStarts(s) => i \notin SelectedBy(sweeps'[s])

C8_ResolvedTerminal == [][C8_StepKeepsResolved]_vars

(* C9: at most one execution of checkAndEscalateIssues is in flight,       *)
(* through whichever entry it was started.                                 *)
C9_OneSweepInFlight ==
    Cardinality({s \in SweepIds : sweeps[s].pc # "idle"}) <= 1

(* C10: a sweep that read an issue before it was accepted does not write   *)
(* over the status and assignedTo the accept stored.                       *)
C10_StepKeepsAccept ==
    \A s \in SweepIds :
        ( /\ sweeps[s].pc = "process"
          /\ sweeps'[s] # sweeps[s] )
        => LET e == sweeps[s].list[sweeps[s].idx]
           IN  (e.doc.acceptedBy = NoUser /\ issues[e.id].acceptedBy # NoUser)
               => /\ issues'[e.id].status = issues[e.id].status
                  /\ issues'[e.id].assignedTo = issues[e.id].assignedTo

C10_SweepKeepsAccept == [][C10_StepKeepsAccept]_vars

(* C11: an issue becomes resolved only from status in-progress, and a      *)
(* resolveIssue call that read the issue in another status is answered     *)
(* with an error and writes neither the issue nor the reporter's points.   *)
C11_StepResolvedFromInProgress ==
    \A i \in DOMAIN issues :
        (issues[i].status # "resolved" /\ issues'[i].status = "resolved")
        => issues[i].status = "in-progress"

C11_StepOtherStatusRejected ==
    \A r \in DOMAIN reqs :
        ( /\ reqs[r].op = "resolve"
          /\ reqs[r].pc \in {"reporter", "credit", "save"}
          /\ reqs[r].orig.status # "in-progress"
          /\ reqs'[r] # reqs[r] )
        => /\ points' = points
           /\ issues' = issues
           /\ reqs'[r].pc = "done" => reqs'[r].result # "200"

C11_ResolvedOnlyFromInProgress ==
    [][C11_StepResolvedFromInProgress /\ C11_StepOtherStatusRejected]_vars

(* C12: a resolveIssue call succeeds only for the staff member recorded   *)
(* in acceptedBy or for an admin; on an accepted issue any other caller is *)
(* answered 403 at once and nothing is written.                            *)
C12_SuccessAuthorized ==
    \A r \in DOMAIN reqs :
        (reqs[r].op = "resolve" /\ reqs[r].pc \in {"save", "notify", "done"}
            /\ reqs[r].result \in {"none", "200"})
        => \/ issues[reqs[r].issue].acceptedBy = reqs[r].user
           \/ RoleOf(reqs[r].user) = "admin"

C12_StepForbidden ==
    \A r \in DOMAIN reqs :
        ( /\ reqs[r].pc = "idle"
          /\ reqs'[r].op = "resolve"
          /\ issues[reqs'[r].issue].acceptedBy \notin {NoUser, reqs'[r].user}
          /\ RoleOf(reqs'[r].user) # "admin" )
        => /\ reqs'[r].pc = "done"
           /\ reqs'[r].result = "403"
           /\ issues' = issues
           /\ points' = points

C12_OnlyAccepterOrAdmin == []C12_SuccessAuthorized /\ [][C12_StepForbidden]_vars

C12_Witness ==
    \E r \in DOMAIN reqs :
        /\ reqs[r].op = "resolve"
        /\ reqs[r].pc = "done"
        /\ reqs[r].result = "403"
        /\ RoleOf(reqs[r].user) = "supervisor"
        /\ issues[reqs[r].issue].acceptedBy \notin {NoUser, reqs[r].user}
        /\ issues[reqs[r].issue].status = "in-progress"

(* C13: a resolveIssue call that supplies a location more than 100 metres *)
(* from the report location is answered with an error at once; the issue   *)
(* and the reporter's points are left as they were.                        *)
C13_StepFarIsRejected ==
    \A r \in DOMAIN reqs :
        ( /\ reqs[r].pc = "idle"
          /\ reqs'[r].op = "resolve"
          /\ reqs'[r].loc.given
          /\ DistanceOf(issues[reqs'[r].issue].latitude, reqs'[r].loc.latitude)
                 > allowedDistanceMeters )
        => /\ reqs'[r].pc = "done"
           /\ reqs'[r].result \in {"400", "403"}
           /\ issues' = issues
           /\ points' = points

C13_FarLocationRejected == [][C13_StepFarIsRejected]_vars

(* C14: an accept by an employee-role caller on an issue with status       *)
(* reported, no acceptedBy and assignedTo unset or the caller is let       *)
(* through by the first read, and its update leaves status in-progress,    *)
(* acceptedBy and assignedTo the caller, assignedBy and assignedAt as they *)
(* were when set; the call is then answered 200.                           *)
C14_Acceptable(rec, u) ==
    /\ rec.status = "reported"
    /\ rec.acceptedBy = NoUser
    /\ rec.assignedTo \in {NoUser, u}

C14_StepReadLetsThrough ==
    \A r \in DOMAIN reqs :
        ( /\ reqs[r].pc = "idle"
          /\ reqs'[r].op = "accept"
          /\ RoleOf(reqs'[r].user) \in employeeRoles
          /\ C14_Acceptable(issues[reqs'[r].issue], reqs'[r].user) )
        => reqs'[r].pc = "update"

C14_StepUpdateAccepts ==
    \A r \in DOMAIN reqs :
        ( /\ reqs[r].op = "accept"
          /\ reqs[r].pc = "update"
          /\ reqs'[r] # reqs[r]
          /\ C14_Acceptable(issues[reqs[r].issue], reqs[r].user) )
        => LET old == issues[reqs[r].issue]
               new == issues'[reqs[r].issue]
               u == reqs[r].user
           IN  /\ new.status = "in-progress"
               /\ new.acceptedBy = u
               /\ new.assignedTo = u
               /\ old.assignedBy # NoUser => new.assignedBy = old.assignedBy
               /\ old.assignedAt # NoTime => new.assignedAt = old.assignedAt
               /\ reqs'[r].pc = "reread"
               /\ reqs'[r].aux = 1

C14_StepAnswers ==
    \A r \in DOMAIN reqs :
        (reqs[r].op = "accept" /\ reqs[r].pc = "reread" /\ reqs[r].aux = 1
            /\ reqs'[r] # reqs[r])
        => reqs'[r].pc = "done" /\ reqs'[r].result = "200"

C14_AcceptOfReported ==
    [][C14_StepReadLetsThrough /\ C14_StepUpdateAccepts /\ C14_StepAnswers]_vars

C14_Witness ==
    \E r \in DOMAIN reqs :
        /\ reqs[r].op = "accept"
        /\ reqs[r].pc = "done"
        /\ reqs[r].result = "200"
        /\ issues[reqs[r].issue].status = "in-progress"
        /\ issues[reqs[r].issue].acceptedBy = reqs[r].user
        /\ issues[reqs[r].issue].assignedTo = reqs[r].user
        /\ issues[reqs[r].issue].assignedBy = 5
        /\ issues[reqs[r].issue].assignedAt = CreatedAt
        /\ now > CreatedAt

(* C15: an accept by a caller on an issue whose assignedTo is another      *)
(* staff member never succeeds: the first read answers 403, an update that *)
(* finds the assignment writes nothing and is answered 400 or 403, and     *)
(* acceptedBy is only ever set to a caller the issue was open to.          *)
C15_AssignedToOther(rec, u) == rec.assignedTo \notin {NoUser, u}

C15_StepReadForbids ==
    \A r \in DOMAIN reqs :
        ( /\ reqs[r].pc = "idle"
          /\ reqs'[r].op = "accept"
          /\ C15_AssignedToOther(issues[reqs'[r].issue], reqs'[r].user) )
        => /\ reqs'[r].pc = "done"
           /\ reqs'[r].result = "403"
           /\ issues' = issues

C15_StepUpdateMisses ==
    \A r \in DOMAIN reqs :
        ( /\ reqs[r].op = "accept"
          /\ reqs[r].pc = "update"
          /\ reqs'[r] # reqs[r]
          /\ C15_AssignedToOther(issues[reqs[r].issue], reqs[r].user) )
        => /\ issues' = issues
           /\ reqs'[r].pc = "reread"
           /\ reqs'[r].aux = 0

C15_StepMissAnswered ==
    \A r \in DOMAIN reqs :
        (reqs[r].op = "accept" /\ reqs[r].pc = "reread" /\ reqs[r].aux = 0
            /\ reqs'[r] # reqs[r])
        => reqs'[r].pc = "done" /\ reqs'[r].result \in {"400", "403"}

C15_StepAcceptedByOpen ==
    \A i \in DOMAIN issues :
        issues'[i].acceptedBy # issues[i].acceptedBy
        => ~C15_AssignedToOther(issues[i], issues'[i].acceptedBy)

C15_AssignedIsExclusive ==
    [][/\ C15_StepReadForbids
       /\ C15_StepUpdateMisses
       /\ C15_StepMissAnswered
       /\ C15_StepAcceptedByOpen]_vars

C15_Witness ==
    \E r \in DOMAIN reqs :
        /\ reqs[r].op = "accept"
        /\ reqs[r].pc = "reread"
        /\ reqs[r].aux = 0
        /\ RoleOf(reqs[r].user) \in employeeRoles
        /\ C15_AssignedToOther(issues[reqs[r].issue], reqs[r].user)
        /\ issues[reqs[r].issue].acceptedBy = NoUser

(* C16: an error thrown while the sweep processes one issue is recorded   *)
(* as one failed result for that issue and the loop goes on to the next    *)
(* issue; a sweep about to return has been through every issue it          *)
(* selected and returns an aggregate that counts each result once.         *)
C16_ReturnsAfterAll ==
    \A s \in SweepIds :
        sweeps[s].pc = "finish"
        => /\ sweeps[s].idx = Len(sweeps[s].list) + 1
           /\ SweepResult(sweeps[s]).escalated + SweepResult(sweeps[s]).failed
                  = Len(sweeps[s].results)
           /\ Len(sweeps[s].results) <= SweepResult(sweeps[s]).checked
           /\ \A j, k \in DOMAIN sweeps[s].results :
                  sweeps[s].results[j].issueId = sweeps[s].results[k].issueId => j = k

C16_StepFailureIsolated ==
    \A s \in SweepIds :
        ( /\ sweeps[s].pc \in {"process", "notify"}
          /\ Len(sweeps'[s].results) > Len(sweeps[s].results)
          /\ ~sweeps'[s].results[Len(sweeps'[s].results)].success )
        => /\ Len(sweeps'[s].results) = Len(sweeps[s].results) + 1
           /\ sweeps'[s].results[Len(sweeps'[s].results)].issueId
                  = sweeps[s].list[sweeps[s].idx].id
           /\ sweeps'[s].list = sweeps[s].list
           /\ sweeps'[s].idx = sweeps[s].idx + 1
           /\ sweeps'[s].pc = IF sweeps[s].idx < Len(sweeps[s].list)
                              THEN "process" ELSE "finish"

C16_FailureIsolated == []C16_ReturnsAfterAll /\ [][C16_StepFailureIsolated]_vars

C16_Witness ==
    \E s \in SweepIds :
        /\ sweeps[s].pc = "finish"
        /\ Len(sweeps[s].list) = 2
        /\ Len(sweeps[s].results) = 2
        /\ ~sweeps[s].results[1].success
        /\ sweeps[s].results[2].success
        /\ issues[sweeps[s].results[2].issueId].status = "escalated"

(* C17: a sweep started while the only issue of the store is unassigned,  *)
(* has status reported and is younger than the grace window makes no       *)
(* transition on it and returns checked = 1 and escalated = 0.             *)
C17_YoungUnassigned(rec) ==
    /\ rec.status = "reported"
    /\ rec.assignedRole = "none"
    /\ now - rec.createdAt < GraceTicks

C17_StepChecksOne ==
    \A s \in SweepIds :
        ( /\ SweepStarts(s)
          /\ \A i \in DOMAIN issues : C17_YoungUnassigned(issues[i]) )
        => /\ issues' = issues
           /\ sweeps'[s].pc = "finish"
           /\ SweepResult(sweeps'[s]).checked = Cardinality(DOMAIN issues)
           /\ SweepResult(sweeps'[s]).escalated = 0

C17_YoungIssueChecked == [][C17_StepChecksOne]_vars

(* C17 as amended: a sweep does not select an unassigned, reported issue   *)
(* younger than the grace window; when every issue of the store is such an *)
(* issue the sweep writes nothing and returns checked = 0, escalated = 0   *)
(* and failed = 0.                                                         *)
C17_StepSkipsYoung ==
    \A s \in SweepIds :
        SweepStarts(s)
        => /\ \A i \in DOMAIN issues :
                  C17_YoungUnassigned(issues[i]) => i \notin SelectedBy(sweeps'[s])
           /\ (\A i \in DOMAIN issues : C17_YoungUnassigned(issues[i]))
                  => /\ issues' = issues
                     /\ sweeps'[s].pc = "finish"
                     /\ SweepResult(sweeps'[s]).checked = 0
                     /\ SweepResult(sweeps'[s]).escalated = 0
                     /\ SweepResult(sweeps'[s]).failed = 0

C17_YoungIssueNotSelected == [][C17_StepSkipsYoung]_vars

C17_Witness ==
    \E s \in SweepIds :
        /\ sweeps[s].pc = "finish"
        /\ sweeps[s].now0 = now
        /\ SweepResult(sweeps[s]).checked = 0
        /\ \A i \in DOMAIN issues : C17_YoungUnassigned(issues[i])

(* C18: when the sweep fast-tracks a never-assigned issue to commissioner  *)
(* the issue's escalationHistory gains one entry, from "unassigned" to     *)
(* commissioner.                                                           *)
C18_StepFastTrackLogged ==
    \A s \in SweepIds :
        ( /\ sweeps[s].pc = "process"
          /\ sweeps'[s] # sweeps[s]
          /\ sweeps[s].list[sweeps[s].idx].doc.assignedRole = "none"
          /\ issues[sweeps[s].list[sweeps[s].idx].id].assignedRole = "none"
          /\ issues'[sweeps[s].list[sweeps[s].idx].id].assignedRole = "commissioner" )
        => LET old == issues[sweeps[s].list[sweeps[s].idx].id].escalationHistory
               new == issues'[sweeps[s].list[sweeps[s].idx].id].escalationHistory
           IN  /\ Len(new) = Len(old) + 1
               /\ new[Len(new)].fromRole = "unassigned"
               /\ new[Len(new)].toRole = "commissioner"

C18_FastTrackLogged == [][C18_StepFastTrackLogged]_vars

(* C19: once resolveIssue has saved the issue as resolved, a failure of a  *)
(* call made after the save does not turn the answer into an error: the    *)
(* call is answered 200.                                                   *)
C19_StepAnsweredAfterSave ==
    \A r \in DOMAIN reqs :
        ( /\ reqs[r].op = "resolve"
          /\ reqs[r].pc = "notify"
          /\ reqs'[r] # reqs[r] )
        => /\ reqs'[r].pc = "done"
           /\ reqs'[r].result = "200"

C19_DownstreamNonFatal == [][C19_StepAnsweredAfterSave]_vars

(* C20: a notification of the fan-out that fails after the transition was *)
(* saved leaves the saved issue as it is and is not reported as a failed   *)
(* escalation: the sweep records the issue as a success and a direct       *)
(* escalateIssue call returns its result.                                  *)
C20_StepSweepKeepsSuccess ==
    \A s \in SweepIds :
        ( /\ sweeps[s].pc = "notify"
          /\ sweeps[s].pending.toRole \in {"supervisor", "commissioner"}
          /\ sweeps'[s] # sweeps[s] )
        => /\ issues' = issues
           /\ Len(sweeps'[s].results) = Len(sweeps[s].results) + 1
           /\ sweeps'[s].results[Len(sweeps'[s].results)].issueId
                  = sweeps[s].pending.issueId
           /\ sweeps'[s].results[Len(sweeps'[s].results)].success

C20_StepCallKeepsResult ==
    \A r \in DOMAIN reqs :
        ( /\ reqs[r].op = "escalate"
          /\ reqs[r].pc = "notify"
          /\ reqs[r].arg \in {"supervisor", "commissioner"}
          /\ reqs'[r] # reqs[r] )
        => /\ issues' = issues
           /\ reqs'[r].pc = "done"
           /\ reqs'[r].result = "ok"

C20_NotifyFailureKept ==
    [][C20_StepSweepKeepsSuccess /\ C20_StepCallKeepsResult]_vars

(* C21: when nobody is eligible for the role an issue would move to, the   *)
(* sweep's step on that issue writes nothing to the store, queues no       *)
(* notification, records no result and moves on to the next issue of its   *)
(* list; a direct escalateIssue call returns null and writes nothing; the  *)
(* issue still satisfies the query, and every sweep that starts selects    *)
(* every issue that satisfies the query.                                   *)
C21_NoStaffFor(dir, d, now0) ==
    IF d.assignedRole = "none"
    THEN LET targetRole == TargetRole(IF d.priority = "none" THEN "medium" ELSE d.priority,
                                      now0 - d.createdAt)
         IN  findAllUsersForRole(dir, targetRole, d.category) = << >>
    ELSE /\ nextRoleOf(d.assignedRole) # "none"
         /\ findAllUsersForRole(dir, nextRoleOf(d.assignedRole), d.category) = << >>

C21_StepSweepNoOp ==
    \A s \in SweepIds :
        ( /\ sweeps[s].pc = "process"
          /\ sweeps'[s] # sweeps[s]
          /\ C21_NoStaffFor(users, sweeps[s].list[sweeps[s].idx].doc, sweeps[s].now0)
          /\ ~( /\ Len(sweeps'[s].results) > Len(sweeps[s].results)
                /\ ~sweeps'[s].results[Len(sweeps'[s].results)].success ) )
        => LET e == sweeps[s].list[sweeps[s].idx]
           IN  /\ issues' = issues
               /\ sweeps'[s].results = sweeps[s].results
               /\ sweeps'[s].to = {}
               /\ sweeps'[s].idx = sweeps[s].idx + 1
               /\ sweeps'[s].pc = IF sweeps[s].idx < Len(sweeps[s].list)
                                  THEN "process" ELSE "finish"
               /\ issues[e.id] = e.doc => Overdue(issues'[e.id], now)

C21_StepCallNoOp ==
    \A r \in DOMAIN reqs :
        ( /\ reqs[r].op = "escalate"
          /\ reqs[r].pc = "step"
          /\ reqs'[r] # reqs[r]
          /\ reqs[r].doc.assignedRole # "none"
          /\ C21_NoStaffFor(users, reqs[r].doc, now) )
        => /\ issues' = issues
           /\ reqs'[r].pc = "done"
           /\ reqs'[r].result = "null"
           /\ reqs'[r].to = {}

C21_StepSelectsOverdue ==
    \A s \in SweepIds :
        SweepStarts(s) =>
            \A i \in DOMAIN issues : Overdue(issues[i], now) => i \in SelectedBy(sweeps'[s])

C21_NoStaffIsNoOp ==
    [][C21_StepSweepNoOp /\ C21_StepCallNoOp /\ C21_StepSelectsOverdue]_vars

(* a sweep went through two issues nobody could take and both still        *)
(* satisfy the query                                                       *)
C21_Witness ==
    \E s \in SweepIds :
        /\ sweeps[s].pc = "finish"
        /\ Len(sweeps[s].list) = 2
        /\ sweeps[s].results = << >>
        /\ \A k \in DOMAIN sweeps[s].list :
              /\ C21_NoStaffFor(users, sweeps[s].list[k].doc, sweeps[s].now0)
              /\ issues[sweeps[s].list[k].id] = sweeps[s].list[k].doc
              /\ Overdue(issues[sweeps[s].list[k].id], now)
        /\ \E k \in DOMAIN sweeps[s].list :
              sweeps[s].list[k].doc.assignedRole = "field-staff"
        /\ \E k \in DOMAIN sweeps[s].list :
              sweeps[s].list[k].doc.assignedRole = "none"

(* C22: escalationHistory is append-only: in every step the stored history *)
(* of every issue is a prefix of its history after the step, also when the *)
(* step is the save of a sweep or of manualEscalate that works on a copy   *)
(* read before another escalation was stored.                              *)
IsPrefix(a, b) ==
    /\ Len(a) <= Len(b)
    /\ \A k \in DOMAIN a : a[k] = b[k]

C22_StepAppends ==
    \A i \in DOMAIN issues :
        IsPrefix(issues[i].escalationHistory, issues'[i].escalationHistory)

C23_StepSweepKeepsAccepted ==
    \A s \in SweepIds :
        ( /\ sweeps[s].pc = "process"
          /\ sweeps'[s] # sweeps[s] )
        => \A i \in DOMAIN issues :
               issues[i].acceptedBy # NoUser
               => /\ issues'[i].assignedRole = issues[i].assignedRole
                  /\ issues'[i].assignedTo = issues[i].assignedTo
                  /\ issues'[i].status = issues[i].status

C23_SweepSparesAccepted == [][C23_StepSweepKeepsAccepted]_vars

(* C24: an escalated issue nobody has accepted can be claimed at its new  *)
(* role: an accept by a member of the eligible list of that role is let    *)
(* through by the first read, and its update, finding the issue still      *)
(* escalated and unaccepted, stores the acceptance (status in-progress,    *)
(* acceptedBy the caller).                                                 *)
C24_Claimable(rec, u) ==
    /\ rec.status = "escalated"
    /\ rec.acceptedBy = NoUser
    /\ rec.assignedRole \in {"supervisor", "commissioner"}
    /\ u \in Range(findAllUsersForRole(users, rec.assignedRole, rec.category))

C24_StepReadLetsThrough ==
    \A r \in DOMAIN reqs :
        ( /\ reqs[r].pc = "idle"
          /\ reqs'[r].op = "accept"
          /\ C24_Claimable(issues[reqs'[r].issue], reqs'[r].user) )
        => reqs'[r].pc = "update"

C24_StepUpdateAccepts ==
    \A r \in DOMAIN reqs :
        ( /\ reqs[r].op = "accept"
          /\ reqs[r].pc = "update"
          /\ reqs'[r] # reqs[r]
          /\ C24_Claimable(issues[reqs[r].issue], reqs[r].user) )
        => /\ issues'[reqs[r].issue].status = "in-progress"
           /\ issues'[reqs[r].issue].acceptedBy = reqs[r].user

C24_EscalatedClaimable == [][C24_StepReadLetsThrough /\ C24_StepUpdateAccepts]_vars

(* C25: under the job's schedule, an issue with status reported, no        *)
(* assignedRole and no acceptedBy eventually has an assignedRole (or has   *)
(* left that condition by being accepted), as long as every role has       *)
(* active staff.                                                           *)
C25_NeverAssigned(i) ==
    /\ issues[i].status = "reported"
    /\ issues[i].assignedRole = "none"
    /\ issues[i].acceptedBy = NoUser
    /\ \A role \in Roles : TierAny(users, role) # {}

C25_EntersHierarchy ==
    \A i \in SweepIssues :
        C25_NeverAssigned(i)
            ~> (issues[i].assignedRole # "none" \/ issues[i].acceptedBy # NoUser)

C25_Witness ==
    \E i \in SweepIssues :
        /\ issues[i].assignedRole \in {"supervisor", "commissioner"}
        /\ issues[i].acceptedBy = NoUser
        /\ issues[i].status = "escalated"
        /\ \A role \in Roles : TierAny(users, role) # {}

C27_ActiveOfRole(role) ==
    {id \in DOMAIN users : users[id].role = role /\ users[id].isActive}

C27_InDepartment(role, category) ==
    {id \in C27_ActiveOfRole(role) :
        \/ category \in users[id].departments
        \/ "All" \in users[id].departments
        \/ users[id].department \in {category, "All"}}

C27_Sorted(list) ==
    \A j, k \in DOMAIN list :
        j < k => \/ users[list[j]].loginCount < users[list[k]].loginCount
                 \/ /\ users[list[j]].loginCount = users[list[k]].loginCount
                    /\ users[list[j]].lastLogin >= users[list[k]].lastLogin

C27_FindAllByTier ==
    \A r \in DOMAIN reqs :
        (reqs[r].op = "find" /\ reqs[r].pc = "done")
        => LET list == reqs[r].found
               role == reqs[r].arg
               category == reqs[r].doc.category
           IN  /\ Range(list) \subseteq C27_ActiveOfRole(role)
               /\ Cardinality(Range(list)) = Len(list)
               /\ C27_Sorted(list)
               /\ Range(list) = IF C27_InDepartment(role, category) # {}
                                THEN C27_InDepartment(role, category)
                                ELSE C27_ActiveOfRole(role)
               /\ list = << >> <=> C27_ActiveOfRole(role) = {}

(* the tiers in play: somebody of the role is in the department, somebody  *)
(* else of the role is active outside it and is left out                   *)
C27_Witness ==
    \E r \in DOMAIN reqs :
        /\ reqs[r].op = "find"
        /\ reqs[r].pc = "done"
        /\ Len(reqs[r].found) = 1
        /\ Cardinality(C27_ActiveOfRole(reqs[r].arg)) = 2
        /\ \E id \in DOMAIN users :
              users[id].role = reqs[r].arg /\ ~users[id].isActive

(* C28: no step of an acceptIssue or resolveIssue call, successful or not, *)
(* changes the assignedRole, the escalationDeadline or the                 *)
(* escalationHistory of an issue; and the escalationDeadline of an issue   *)
(* changes only in a step that also changes its assignedRole, or that      *)
(* gives a deadline to an issue that had none.                             *)
C28_StepGateKeepsEscalation ==
    \A r \in DOMAIN reqs :
        ( /\ reqs'[r] # reqs[r]
          /\ reqs[r].op \in {"accept", "resolve"} \/ reqs'[r].op \in {"accept", "resolve"} )
        => \A i \in DOMAIN issues :
               /\ issues'[i].assignedRole = issues[i].assignedRole
               /\ issues'[i].escalationDeadline = issues[i].escalationDeadline
               /\ issues'[i].escalationHistory = issues[i].escalationHistory

C28_StepDeadlineWithRole ==
    \A i \in DOMAIN issues :
        issues'[i].escalationDeadline # issues[i].escalationDeadline
        => \/ issues'[i].assignedRole # issues[i].assignedRole
           \/ issues[i].escalationDeadline = NoTime

(* the half of C28 about accept and resolve, by itself *)
C28_GateKeepsEscalation == [][C28_StepGateKeepsEscalation]_vars

C28_EscalationFieldsFramed ==
    [][C28_StepGateKeepsEscalation /\ C28_StepDeadlineWithRole]_vars

(* C29: an accept that is not answered 200 writes nothing: the calls       *)
(* refused at the first read (caller not an employee, issue not found,     *)
(* issue assigned to someone else) and the update that matches no row      *)
(* leave every issue as it was, and so does the diagnostic re-read, which  *)
(* answers 400, 403 or 404.                                                *)
C29_StepOnlyMatchWrites ==
    \A r \in DOMAIN reqs :
        ( /\ reqs'[r] # reqs[r]
          /\ reqs'[r].op = "accept"
          /\ ~(reqs'[r].pc = "reread" /\ reqs'[r].aux = 1) )
        => issues' = issues

C29_StepRefusedAtRead ==
    \A r \in DOMAIN reqs :
        ( /\ reqs[r].pc = "idle"
          /\ reqs'[r].op = "accept"
          /\ \/ RoleOf(reqs'[r].user) \notin employeeRoles
             \/ reqs'[r].issue \notin DOMAIN issues
             \/ C15_AssignedToOther(issues[reqs'[r].issue], reqs'[r].user) )
        => /\ reqs'[r].pc = "done"
           /\ reqs'[r].result \in {"403", "404"}
           /\ issues' = issues

C29_StepDiagnosis ==
    \A r \in DOMAIN reqs :
        (reqs[r].op = "accept" /\ reqs[r].pc = "reread" /\ reqs'[r] # reqs[r])
        => /\ issues' = issues
           /\ reqs'[r].pc = "done"
           /\ reqs'[r].result = "200" <=> reqs[r].aux = 1

C29_FailedAcceptWritesNothing ==
    [][C29_StepOnlyMatchWrites /\ C29_StepRefusedAtRead /\ C29_StepDiagnosis]_vars

(* one call lost the update to the other and was told so, a call on an id *)
(* the store does not hold was answered 404                                *)
C29_Witness ==
    \E r, q \in DOMAIN reqs :
        /\ reqs[r].op = "accept" /\ reqs[r].pc = "done"
        /\ reqs[r].result = "404"
        /\ reqs[q].op = "accept" /\ reqs[q].pc = "done"
        /\ reqs[q].result = "400"
        /\ RoleOf(reqs[q].user) \in employeeRoles
        /\ issues[reqs[q].issue].acceptedBy \notin {NoUser, reqs[q].user}
        /\ issues[reqs[q].issue].assignedTo = issues[reqs[q].issue].acceptedBy

(* C30: when two resolveIssue calls on one accepted issue in progress have *)
(* both read it, credited the reporter and saved it, the reporter's points *)
(* have grown by the bonus once.                                           *)
C30_BothResolved ==
    /\ reqs["r1"].op = "resolve" /\ reqs["r2"].op = "resolve"
    /\ reqs["r1"].pc = "done" /\ reqs["r2"].pc = "done"
    /\ reqs["r1"].result = "200" /\ reqs["r2"].result = "200"
    /\ reqs["r1"].issue = reqs["r2"].issue

C30_TwoResolvesCreditOnce == C30_BothResolved => points = PointBonus

(* C31: for every never-assigned issue a sweep has selected, the target    *)
(* role its age and priority give is supervisor or commissioner, never     *)
(* field-staff, and no step of a sweep on such an issue stores the role    *)
(* field-staff.                                                            *)
C31_TargetOf(sw, k) ==
    TargetRole(IF sw.list[k].doc.priority = "none" THEN "medium"
               ELSE sw.list[k].doc.priority,
               sw.now0 - sw.list[k].doc.createdAt)

C31_TargetAboveFieldStaff ==
    \A s \in SweepIds : \A k \in DOMAIN sweeps[s].list :
        sweeps[s].list[k].doc.assignedRole = "none"
        => /\ sweeps[s].now0 - sweeps[s].list[k].doc.createdAt >= GraceTicks
           /\ C31_TargetOf(sweeps[s], k) \in {"supervisor", "commissioner"}

C31_StepNoFirstFieldStaff ==
    \A s \in SweepIds :
        ( /\ sweeps[s].pc = "process"
          /\ sweeps'[s] # sweeps[s]
          /\ sweeps[s].list[sweeps[s].idx].doc.assignedRole = "none" )
        => LET e == sweeps[s].list[sweeps[s].idx]
           IN  /\ issues'[e.id].assignedRole # "field-staff"
               /\ sweeps'[s].pending.toRole # "field-staff"
               /\ issues'[e.id] # issues[e.id]
                      => issues'[e.id].assignedRole = C31_TargetOf(sweeps[s], sweeps[s].idx)

C31_SweepSkipsFieldStaff ==
    []C31_TargetAboveFieldStaff /\ [][C31_StepNoFirstFieldStaff]_vars

(* a low priority issue exactly as old as the grace window went to a       *)
(* supervisor                                                              *)
C31_Witness ==
    \E s \in SweepIds :
        /\ sweeps[s].pc = "notify"
        /\ sweeps[s].pending.fromRole = "unassigned"
        /\ sweeps[s].pending.toRole = "supervisor"
        /\ sweeps[s].now0 - sweeps[s].list[sweeps[s].idx].doc.createdAt = GraceTicks
        /\ sweeps[s].list[sweeps[s].idx].doc.priority = "low"
        /\ issues[sweeps[s].pending.issueId].assignedRole = "supervisor"

(* C32: the flag isRunning is set exactly while a sweep started by the     *)
(* cron callback or by runNow is under way: the step that ends such a      *)
(* sweep, by a return or by a throw, leaves the flag false, so a trigger   *)
(* is skipped or refused only while a sweep is still running.              *)
C32_GuardedInFlight == {s \in GuardedSweeps : sweeps[s].pc # "idle"}

C32_FlagMeansRunning == isRunning <=> C32_GuardedInFlight # {}

C32_StepEndFreesFlag ==
    \A s \in GuardedSweeps :
        (sweeps[s].pc # "idle" /\ sweeps'[s].pc = "idle") => ~isRunning'

C32_GuardReleased == []C32_FlagMeansRunning /\ [][C32_StepEndFreesFlag]_vars

(* runNow has thrown, and the cron callback that fired afterwards runs its *)
(* sweep                                                                   *)
C32_Witness ==
    /\ sweeps["runNow"].pc = "idle"
    /\ sweeps["runNow"].thrown
    /\ sweeps["cron"].pc = "process"
    /\ isRunning

(* C33: the aggregate a sweep is about to return accounts for what it did: *)
(* checked is the number of issues it selected, escalated + failed is at   *)
(* most checked, every result belongs to a selected issue and no issue has *)
(* two, and an issue is counted under escalated exactly when the sweep     *)
(* changed its assignedRole, so never under failed when its transition was *)
(* saved.                                                                  *)
C33_RoleChangedBy(sw, id) ==
    \E k \in DOMAIN sw.list :
        /\ sw.list[k].id = id
        /\ issues[id].assignedRole # sw.list[k].doc.assignedRole

C33_ResultAccounts ==
    \A s \in SweepIds :
        sweeps[s].pc = "finish"
        => LET sw == sweeps[s]
               res == SweepResult(sw)
           IN  /\ res.checked = Cardinality(SelectedBy(sw))
               /\ res.escalated + res.failed <= res.checked
               /\ \A k \in DOMAIN res.results : res.results[k].issueId \in SelectedBy(sw)
               /\ \A j, k \in DOMAIN res.results :
                      res.results[j].issueId = res.results[k].issueId => j = k
               /\ \A id \in SelectedBy(sw) :
                      (\E k \in DOMAIN res.results :
                          res.results[k].issueId = id /\ res.results[k].success)
                      <=> C33_RoleChangedBy(sw, id)

====
